---------------------------- MODULE Spec2Model ----------------------------
(***************************************************************************)
(* Model of views/market_monopoly_page.py: the HHI market-concentration   *)
(* page.  The pipeline is                                                  *)
(*   raw loan records -> city threshold filter -> per-city lender/bin      *)
(*   aggregation -> per-bin score records -> category selection -> render. *)
(*                                                                         *)
(* Python lists hold references to dict objects.  A score record is       *)
(* identified by its position in score_records, and every list derived     *)
(* from score_records (filtered_records, sorted_records, the selection) is *)
(* a sequence of such positions ("refs").                                  *)
(*                                                                         *)
(* hhi is a double in the program; it is kept here as the exact fraction   *)
(* [num, den] and compared by cross-multiplication.                        *)
(* bin_num_loans_pct_std_dev is carried by the program's records but read  *)
(* by nothing in this file except the record construction; it is left out. *)
(***************************************************************************)
EXTENDS Integers, Sequences, FiniteSets, TLC

\* ------------------------------------------------------------ constants
CITY_NUM_LOANS_MIN_THREASHOLD == 10
BIN_NUM_LOANS_MIN_THREASHOLD == 10
HIGH_HHI_SEGMENT == "Top 10 Segments by Market Concentration"
LOW_HHI_SEGMENT == "Top 10 Most Fragmented Market Segments"
ALL_SEGMENT == "All Market Segments"
Categories == {HIGH_HHI_SEGMENT, LOW_HHI_SEGMENT, ALL_SEGMENT}

\* the slice bound of sorted_records[:10]
TopN == 10
\* the default of order_map.get(label, 999)
OrderDefault == 999

\* ------------------------------------------------------------ bounds
\* number of freely chosen records in a selector input list
MaxLen == 3
\* number of different (city, lender, loanAmount) kinds in a data set
MaxKinds == 3

\* ------------------------------------------------------------ helpers
Min(a, b) == IF a <= b THEN a ELSE b

Range(s) == {s[i] : i \in 1..Len(s)}

Reverse(s) == [i \in 1..Len(s) |-> s[Len(s) + 1 - i]]

\* s[:n]
Take(s, n) == SubSeq(s, 1, Min(n, Len(s)))

RECURSIVE GCD(_, _)
GCD(a, b) == IF b = 0 THEN a ELSE GCD(b, a % b)

\* exact fractions in lowest terms, numerators >= 0 and denominators > 0
Frac(n, d) == [num |-> n \div GCD(n, d), den |-> d \div GCD(n, d)]
FracAdd(a, b) == Frac(a.num * b.den + b.num * a.den, a.den * b.den)
FracMul(a, b) == Frac(a.num * b.num, a.den * b.den)
FracLT(a, b) == a.num * b.den < b.num * a.den
FracEQ(a, b) == a.num * b.den = b.num * a.den

\* ------------------------------------------------------------ sorted()
\* list.sort is stable: x goes after every element whose key is <= key[x].
RECURSIVE InsertStable(_, _, _)
InsertStable(key, acc, x) ==
    IF acc = <<>> THEN <<x>>
    ELSE IF FracLT(key[x], key[Head(acc)]) THEN <<x>> \o acc
    ELSE <<Head(acc)>> \o InsertStable(key, Tail(acc), x)

RECURSIVE StableSort(_, _)
StableSort(key, refs) ==
    IF refs = <<>> THEN <<>>
    ELSE InsertStable(key, StableSort(key, SubSeq(refs, 1, Len(refs) - 1)),
                      refs[Len(refs)])

\* a descending sort that reverses an ascending one: equal keys come out in
\* reverse input order
SortedNaiveReverse(key, refs, reverse) ==
    IF reverse THEN Reverse(StableSort(key, refs)) ELSE StableSort(key, refs)

\* sorted(refs, key=..., reverse=...): with reverse=True the list is reversed,
\* sorted ascending and reversed again, which keeps equal keys in input order.
Sorted(key, refs, reverse) ==
    IF reverse THEN Reverse(StableSort(key, Reverse(refs)))
    ELSE StableSort(key, refs)

\* ------------------------------------------------------------ state
VARIABLES
    df,                      \* the loan records: (city, lender, loanAmount) -> how many
    pc,                      \* position in render_page
    above_threshold_cities,  \* list(above_threshold_df["city"])
    cities_left,             \* cities the scoring loop has not visited yet
    ltb,                     \* lender_to_loan_amount_bins of the city being scored
    score_records,
    selected_hhi_category,
    selected_min_num_loans,
    selected_score_records,  \* refs into score_records
    shown,                   \* what the page has rendered, in order
    raised                   \* the exception that ended the run, or "none"

vars == <<df, pc, above_threshold_cities, cities_left, ltb, score_records,
          selected_hhi_category, selected_min_num_loans, selected_score_records,
          shown, raised>>

\* ------------------------------------------------------------ Segment Selector
order_map ==
    [l \in {"$5M - $10M", "$2.5M - $5M", "$1M - $2.5M", "$500K - $1M",
            "$250K - $500K", "$100K - $250K", "$50K - $100K", "$0 - $50K"} |->
        CASE l = "$5M - $10M" -> 1
          [] l = "$2.5M - $5M" -> 2
          [] l = "$1M - $2.5M" -> 3
          [] l = "$500K - $1M" -> 4
          [] l = "$250K - $500K" -> 5
          [] l = "$100K - $250K" -> 6
          [] l = "$50K - $100K" -> 7
          [] l = "$0 - $50K" -> 8]

\* a lookup whose default puts unknown labels first
OrderMapGetUnknownFirst(label) ==
    IF label \in DOMAIN order_map THEN order_map[label] ELSE 0

\* order_map.get(label, 999)
OrderMapGet(label) ==
    IF label \in DOMAIN order_map THEN order_map[label] ELSE OrderDefault

\* a filter that lets through only the records strictly above the threshold
FilteredStrict(recs, min_num_loans) ==
    SelectSeq([i \in 1..Len(recs) |-> i],
              LAMBDA i : recs[i].bin_num_loans > min_num_loans)

\* a filter with the comparison the wrong way round
FilteredReversed(recs, min_num_loans) ==
    SelectSeq([i \in 1..Len(recs) |-> i],
              LAMBDA i : recs[i].bin_num_loans <= min_num_loans)

\* filtered_records: the records with bin_num_loans >= selected_min_num_loans
Filtered(recs, min_num_loans) ==
    SelectSeq([i \in 1..Len(recs) |-> i],
              LAMBDA i : recs[i].bin_num_loans >= min_num_loans)

\* key=lambda x: x["hhi"]
HhiKey(recs) == [i \in 1..Len(recs) |-> recs[i].hhi]

\* key=lambda x: order_map.get(x["loan_amount_bin"], 999)
BinKey(recs) == [i \in 1..Len(recs) |-> Frac(OrderMapGet(recs[i].loan_amount_bin), 1)]

\* a selector whose MostConcentrated branch forgets reverse=True
get_selected_never_reversed(recs, min_num_loans, market_category) ==
    LET filtered_records == Filtered(recs, min_num_loans) IN
    IF market_category \in {HIGH_HHI_SEGMENT, LOW_HHI_SEGMENT}
        THEN Take(Sorted(HhiKey(recs), filtered_records, FALSE), TopN)
    ELSE Sorted(BinKey(recs), filtered_records, FALSE)

get_selected_score_records(recs, min_num_loans, market_category) ==
    LET filtered_records == Filtered(recs, min_num_loans) IN
    IF market_category = HIGH_HHI_SEGMENT
        THEN Take(Sorted(HhiKey(recs), filtered_records, TRUE), TopN)
    ELSE IF market_category = LOW_HHI_SEGMENT
        THEN Take(Sorted(HhiKey(recs), filtered_records, FALSE), TopN)
    ELSE Sorted(BinKey(recs), filtered_records, FALSE)

\* ------------------------------------------------------------ selector inputs
\* Score records the selector is applied to.  The hhi categories read only
\* bin_num_loans and hhi, the All category only bin_num_loans and the bin label,
\* so each profile pairs a label (largest, smallest, not canonical) with an hhi.
SelProfiles ==
    {<<"$5M - $10M", Frac(10000, 1)>>,
     <<"$0 - $50K", Frac(5000, 1)>>,
     <<"$10M+", Frac(10000, 1)>>}
SelNumLoans == {10, 20}
SelThresholds == {10, 20}

SelRecords ==
    {[city |-> "DOVER", loan_amount_bin |-> p[1], bin_num_loans |-> n, hhi |-> p[2]] :
        p \in SelProfiles, n \in SelNumLoans}

\* the lists of at most n records
Lists(n) == UNION {[1..k -> SelRecords] : k \in 0..n}

\* TopN copies of one record, so that the slice [:10] has something to cut
Block(r) == [i \in 1..TopN |-> r]

\* nothing, or one block
Blocks == {<<>>} \cup {Block(r) : r \in SelRecords}

SelInit ==
    \* up to MaxLen free records, with at most one block anywhere among them
    /\ \E pre \in Lists(MaxLen) :
          \E suf \in Lists(MaxLen - Len(pre)), mid \in Blocks :
              score_records = pre \o mid \o suf
    /\ pc = "select"
    /\ df = <<>>
    /\ above_threshold_cities = <<>>
    /\ cities_left = <<>>
    /\ ltb = {}
    /\ selected_hhi_category = "none"
    /\ selected_min_num_loans = 0
    /\ selected_score_records = <<>>
    /\ shown = <<>>
    /\ raised = "none"

\* one call of _get_selected_score_records
ApplySelect(t, c) ==
    /\ pc = "select"
    /\ selected_min_num_loans' = t
    /\ selected_hhi_category' = c
    /\ selected_score_records' = get_selected_score_records(score_records, t, c)
    /\ pc' = "selected"
    /\ UNCHANGED <<df, above_threshold_cities, cities_left, ltb, score_records,
                   shown, raised>>

SelNext == \E t \in SelThresholds, c \in Categories : ApplySelect(t, c)

SpecSelect == SelInit /\ [][SelNext]_vars

\* ------------------------------------------------------------ loan records
\* the value pd.to_numeric(errors="coerce") gives a non-numeric loanAmount
NaN == -1

Cities == {"DOVER", "LEWES"}
Lenders == {"A", "B"}
Amounts == {30000, 7000000, NaN}
LoanCounts == {4, 5, 10}

\* groupby("city") yields its groups in ascending key order
CitiesAscending == <<"DOVER", "LEWES">>

\* A loan whose amount is missing falls in no bin and its lender is never read,
\* so one lender stands for the lenders of such loans.
LoanKinds ==
    {k \in Cities \X Lenders \X Amounts : k[3] = NaN => k[2] = "A"}

\* the data sets with one to MaxKinds kinds of loan record, each kind present
\* 4, 5 or 10 times
DataSets ==
    UNION {{[k \in LoanKinds |-> IF k \in K THEN f[k] ELSE 0] : f \in [K -> LoanCounts]} :
           K \in {K \in SUBSET LoanKinds : K # {} /\ Cardinality(K) <= MaxKinds}}

RECURSIVE SumOver(_, _)
\* the sum of f[x] over the x in S
SumOver(f, S) ==
    IF S = {} THEN 0
    ELSE LET x == CHOOSE x \in S : TRUE IN f[x] + SumOver(f, S \ {x})

\* ------------------------------------------------------------ Bin Classifier
\* upper edge -> label
BIN_EDGE_TO_LABEL ==
    [e \in {50000, 100000, 250000, 500000, 1000000, 2500000, 5000000, 10000000} |->
        CASE e = 50000 -> "$0 - $50K"
          [] e = 100000 -> "$50K - $100K"
          [] e = 250000 -> "$100K - $250K"
          [] e = 500000 -> "$250K - $500K"
          [] e = 1000000 -> "$500K - $1M"
          [] e = 2500000 -> "$1M - $2.5M"
          [] e = 5000000 -> "$2.5M - $5M"
          [] e = 10000000 -> "$5M - $10M"]

\* bin_labels: the labels by ascending edge
bin_labels ==
    <<"$0 - $50K", "$50K - $100K", "$100K - $250K", "$250K - $500K",
      "$500K - $1M", "$1M - $2.5M", "$2.5M - $5M", "$5M - $10M">>

NoBin == "none"

\* the bin of an amount: the first bin whose upper edge lies above it; a
\* missing amount, or one beyond the last edge, is in no bin
BinOf(amount) ==
    LET above == {e \in DOMAIN BIN_EDGE_TO_LABEL : amount < e} IN
    IF amount < 0 \/ above = {} THEN NoBin
    ELSE BIN_EDGE_TO_LABEL[CHOOSE e \in above : \A e2 \in above : e <= e2]

\* ------------------------------------------------------------ Lender Aggregator
\* one row per (lender, bin) with at least one loan of the city
get_lender_to_loan_amount_bins(data, city) ==
    LET count(l, b) ==
            SumOver(data, {k \in LoanKinds : k[1] = city /\ k[2] = l /\ BinOf(k[3]) = b})
    IN {[lender |-> p[1], loan_amount_bin |-> p[2], num_loans |-> count(p[1], p[2])] :
            p \in {p \in Lenders \X Range(bin_labels) : count(p[1], p[2]) > 0}}

\* ------------------------------------------------------------ City Threshold Filter
\* df.groupby("city").size()
CityLoanCount(data, city) == SumOver(data, {k \in LoanKinds : k[1] = city})

\* a city filter that wants more than the threshold
AboveThresholdStrict(data) ==
    SelectSeq(CitiesAscending,
              LAMBDA c : CityLoanCount(data, c) > CITY_NUM_LOANS_MIN_THREASHOLD)

\* list(_get_above_threshold_df(df)["city"]); a city without a row has no group
get_above_threshold_cities(data) ==
    SelectSeq(CitiesAscending,
              LAMBDA c : CityLoanCount(data, c) >= CITY_NUM_LOANS_MIN_THREASHOLD)

\* ------------------------------------------------------------ Segment Scorer
\* groupby("loan_amount_bin")["num_loans"].transform("sum")
WithBinNumLoans(rows) ==
    {[lender |-> r.lender, loan_amount_bin |-> r.loan_amount_bin,
      num_loans |-> r.num_loans,
      bin_num_loans |->
          SumOver([q \in rows |-> q.num_loans],
                  {q \in rows : q.loan_amount_bin = r.loan_amount_bin})] : r \in rows}

\* num_loans / bin_num_loans * 100, for every row
WithPct(rows) ==
    {[lender |-> r.lender, loan_amount_bin |-> r.loan_amount_bin,
      num_loans |-> r.num_loans, bin_num_loans |-> r.bin_num_loans,
      lender_num_loans_pct |-> Frac(r.num_loans * 100, r.bin_num_loans)] : r \in rows}

\* rows[rows["bin_num_loans"] >= BIN_NUM_LOANS_MIN_THREASHOLD]
AboveBinThreshold(rows) ==
    {r \in rows : r.bin_num_loans >= BIN_NUM_LOANS_MIN_THREASHOLD}

RECURSIVE SumShares(_)
SumShares(group) ==
    IF group = {} THEN Frac(0, 1)
    ELSE LET r == CHOOSE r \in group : TRUE IN
         FracAdd(r.lender_num_loans_pct, SumShares(group \ {r}))

\* an index that sums the shares without squaring them
HhiUnsquared(rows, b) == SumShares({r \in rows : r.loan_amount_bin = b})

RECURSIVE SumSquares(_)
\* (x**2).sum()
SumSquares(group) ==
    IF group = {} THEN Frac(0, 1)
    ELSE LET r == CHOOSE r \in group : TRUE IN
         FracAdd(FracMul(r.lender_num_loans_pct, r.lender_num_loans_pct),
                 SumSquares(group \ {r}))

\* hhi_by_bin[b]
HhiByBin(rows, b) == SumSquares({r \in rows : r.loan_amount_bin = b})

\* the records the loop over the bin groups appends for one city, in the
\* order of the categorical (ascending edges)
CityRecords(city, rows) ==
    LET present == SelectSeq(bin_labels,
                             LAMBDA b : \E r \in rows : r.loan_amount_bin = b) IN
    [i \in 1..Len(present) |->
        [city |-> city,
         loan_amount_bin |-> present[i],
         bin_num_loans |->
             (CHOOSE r \in rows : r.loan_amount_bin = present[i]).bin_num_loans,
         hhi |-> HhiByBin(rows, present[i])]]

\* ------------------------------------------------------------ render_page
Init ==
    /\ df \in DataSets
    /\ pc = "start"
    /\ above_threshold_cities = <<>>
    /\ cities_left = <<>>
    /\ ltb = {}
    /\ score_records = <<>>
    /\ selected_hhi_category = "none"
    /\ selected_min_num_loans = 0
    /\ selected_score_records = <<>>
    /\ shown = <<"title", "introduction">>
    /\ raised = "none"

\* the position after one city of the scoring loop, or before the first
AfterCity(left) == IF left = <<>> THEN "radio" ELSE "aggregate"

\* above_threshold_df, above_threshold_cities and the city_to_df of the scorer
GetAboveThreshold ==
    /\ pc = "start"
    /\ above_threshold_cities' = get_above_threshold_cities(df)
    /\ cities_left' = above_threshold_cities'
    /\ pc' = AfterCity(cities_left')
    /\ UNCHANGED <<df, ltb, score_records, selected_hhi_category,
                   selected_min_num_loans, selected_score_records, shown, raised>>

\* loop body, first part: the lender rows of the city and their bin_num_loans
Aggregate ==
    /\ pc = "aggregate"
    /\ ltb' = WithBinNumLoans(get_lender_to_loan_amount_bins(df, Head(cities_left)))
    /\ pc' = "pct"
    /\ UNCHANGED <<df, above_threshold_cities, cities_left, score_records,
                   selected_hhi_category, selected_min_num_loans,
                   selected_score_records, shown, raised>>

\* loop body: the lender_num_loans_pct column
ComputePct ==
    /\ pc = "pct"
    /\ ltb' = WithPct(ltb)
    /\ pc' = "drop"
    /\ UNCHANGED <<df, above_threshold_cities, cities_left, score_records,
                   selected_hhi_category, selected_min_num_loans,
                   selected_score_records, shown, raised>>

\* loop body: the rows below the bin threshold go
DropBelowThreshold ==
    /\ pc = "drop"
    /\ ltb' = AboveBinThreshold(ltb)
    /\ pc' = "append"
    /\ UNCHANGED <<df, above_threshold_cities, cities_left, score_records,
                   selected_hhi_category, selected_min_num_loans,
                   selected_score_records, shown, raised>>

\* loop body, last part: hhi per bin and one record per bin group
AppendRecords ==
    /\ pc = "append"
    /\ score_records' = score_records \o CityRecords(Head(cities_left), ltb)
    /\ cities_left' = Tail(cities_left)
    /\ pc' = AfterCity(cities_left')
    /\ UNCHANGED <<df, above_threshold_cities, ltb, selected_hhi_category,
                   selected_min_num_loans, selected_score_records, shown, raised>>

\* st.radio
Radio(c) ==
    /\ pc = "radio"
    /\ selected_hhi_category' = c
    /\ pc' = "slider"
    /\ UNCHANGED <<df, above_threshold_cities, cities_left, ltb, score_records,
                   selected_min_num_loans, selected_score_records, shown, raised>>

\* max(record["bin_num_loans"] for record in score_records), records not empty
MaxBinNumLoans(recs) ==
    CHOOSE m \in {recs[i].bin_num_loans : i \in 1..Len(recs)} :
        \A i \in 1..Len(recs) : recs[i].bin_num_loans <= m

\* math.ceil(max_bin_num_loans / 10) * 10
SliderMax(recs) == ((MaxBinNumLoans(recs) + 9) \div 10) * 10

SliderStep(max_value) ==
    IF max_value <= 20 THEN 1
    ELSE IF max_value <= 100 THEN 5
    ELSE IF max_value <= 500 THEN 10
    ELSE 50

\* the values the slider can return: st.slider is a widget of the page framework,
\* taken to return any value min_value + k * step up to max_value
SliderValues(recs) ==
    {v \in BIN_NUM_LOANS_MIN_THREASHOLD..SliderMax(recs) :
        (v - BIN_NUM_LOANS_MIN_THREASHOLD) % SliderStep(SliderMax(recs)) = 0}

\* _show_slider: max() of an empty sequence raises ValueError
ShowSlider ==
    /\ pc = "slider"
    /\ IF score_records = <<>>
          THEN /\ raised' = "ValueError"
               /\ pc' = "crashed"
               /\ UNCHANGED <<selected_min_num_loans, shown>>
          ELSE /\ \E v \in SliderValues(score_records) : selected_min_num_loans' = v
               /\ pc' = "select"
               /\ shown' = Append(shown, "slider")
               /\ UNCHANGED raised
    /\ UNCHANGED <<df, above_threshold_cities, cities_left, ltb, score_records,
                   selected_hhi_category, selected_score_records>>

\* a selection step that shows the notice and goes on with the page
SelectWithoutReturn ==
    /\ pc = "select"
    /\ selected_score_records' =
          get_selected_score_records(score_records, selected_min_num_loans,
                                     selected_hhi_category)
    /\ IF selected_score_records' = <<>>
          THEN shown' = shown \o <<"no_data_selected", "footer">>
          ELSE shown' = Append(shown, "category")
    /\ pc' = "metrics"
    /\ UNCHANGED <<df, above_threshold_cities, cities_left, ltb, score_records,
                   selected_hhi_category, selected_min_num_loans, raised>>

\* the selection, and the notice and the return when it is empty
Select ==
    /\ pc = "select"
    /\ selected_score_records' =
          get_selected_score_records(score_records, selected_min_num_loans,
                                     selected_hhi_category)
    /\ IF selected_score_records' = <<>>
          THEN /\ shown' = shown \o <<"no_data_selected", "footer">>
               /\ pc' = "done"
          ELSE /\ shown' = Append(shown, "category")
               /\ pc' = "metrics"
    /\ UNCHANGED <<df, above_threshold_cities, cities_left, ltb, score_records,
                   selected_hhi_category, selected_min_num_loans, raised>>

\* _show_metrics_selected_data: max() of an empty sequence raises ValueError
ShowMetrics ==
    /\ pc = "metrics"
    /\ IF selected_score_records = <<>>
          THEN raised' = "ValueError" /\ pc' = "crashed" /\ UNCHANGED shown
          ELSE shown' = Append(shown, "metrics") /\ pc' = "chart" /\ UNCHANGED raised
    /\ UNCHANGED <<df, above_threshold_cities, cities_left, ltb, score_records,
                   selected_hhi_category, selected_min_num_loans,
                   selected_score_records>>

\* _get_stacked_bar_data and _show_stacked_bar: pd.concat of no frames raises
\* ValueError
ShowStackedBar ==
    /\ pc = "chart"
    /\ IF selected_score_records = <<>>
          THEN raised' = "ValueError" /\ pc' = "crashed" /\ UNCHANGED shown
          ELSE shown' = Append(shown, "chart") /\ pc' = "toggle" /\ UNCHANGED raised
    /\ UNCHANGED <<df, above_threshold_cities, cities_left, ltb, score_records,
                   selected_hhi_category, selected_min_num_loans,
                   selected_score_records>>

\* st.toggle("Show Chart Data") and _show_df
Toggle(show_chart_data) ==
    /\ pc = "toggle"
    /\ shown' = IF show_chart_data THEN Append(shown, "table") ELSE shown
    /\ pc' = "info"
    /\ UNCHANGED <<df, above_threshold_cities, cities_left, ltb, score_records,
                   selected_hhi_category, selected_min_num_loans,
                   selected_score_records, raised>>

\* _show_info_stacked_bar and the footer
ShowInfo ==
    /\ pc = "info"
    /\ shown' = shown \o <<"info", "footer">>
    /\ pc' = "done"
    /\ UNCHANGED <<df, above_threshold_cities, cities_left, ltb, score_records,
                   selected_hhi_category, selected_min_num_loans,
                   selected_score_records, raised>>

Next ==
    \/ GetAboveThreshold
    \/ Aggregate
    \/ ComputePct
    \/ DropBelowThreshold
    \/ AppendRecords
    \/ \E c \in Categories : Radio(c)
    \/ ShowSlider
    \/ Select
    \/ ShowMetrics
    \/ ShowStackedBar
    \/ \E b \in BOOLEAN : Toggle(b)
    \/ ShowInfo

Spec == Init /\ [][Next]_vars

\* ------------------------------------------------------------ claims: selector
\* the refs of the records that meet threshold t
Passing(t) == {i \in 1..Len(score_records) : score_records[i].bin_num_loans >= t}

NoDuplicates(s) == \A i, j \in 1..Len(s) : i # j => s[i] # s[j]

HhiOf(i) == score_records[i].hhi

\* a comes before b by hhi descending, input order among equals
BeforeDescending(a, b) ==
    FracLT(HhiOf(b), HhiOf(a)) \/ (FracEQ(HhiOf(a), HhiOf(b)) /\ a < b)

\* a comes before b by hhi ascending, input order among equals
BeforeAscending(a, b) ==
    FracLT(HhiOf(a), HhiOf(b)) \/ (FracEQ(HhiOf(a), HhiOf(b)) /\ a < b)

\* C1: with category MostConcentrated the selection is exactly the first 10 (or
\* all, if fewer) of the records with bin_num_loans >= T, in hhi-descending
\* order, records of equal hhi in their input order.
C1_MostConcentrated ==
    (pc = "selected" /\ selected_hhi_category = HIGH_HHI_SEGMENT) =>
        LET sel == selected_score_records
            P == Passing(selected_min_num_loans) IN
        /\ Len(sel) = Min(10, Cardinality(P))
        /\ Range(sel) \subseteq P
        /\ NoDuplicates(sel)
        /\ \A i, j \in 1..Len(sel) : i < j => BeforeDescending(sel[i], sel[j])
        /\ \A q \in P \ Range(sel) : \A i \in 1..Len(sel) : BeforeDescending(sel[i], q)

\* C1's case: more than 10 records pass, two selected records tie on hhi and
\* one passing record is cut off
C1_Witness ==
    /\ pc = "selected" /\ selected_hhi_category = HIGH_HHI_SEGMENT
    /\ Cardinality(Passing(selected_min_num_loans)) > 10
    /\ Cardinality(Passing(selected_min_num_loans)) < Len(score_records)
    /\ Len(selected_score_records) = 10
    /\ \E i \in 1..9 : /\ FracEQ(HhiOf(selected_score_records[i]),
                                 HhiOf(selected_score_records[i + 1]))
                       /\ selected_score_records[i] < selected_score_records[i + 1]
    /\ \E i \in 1..9 : FracLT(HhiOf(selected_score_records[i + 1]),
                              HhiOf(selected_score_records[i]))

\* C2: with category MostFragmented the selection is exactly the first 10 (or
\* all, if fewer) of the records with bin_num_loans >= T, in hhi-ascending
\* order, records of equal hhi in their input order.
C2_MostFragmented ==
    (pc = "selected" /\ selected_hhi_category = LOW_HHI_SEGMENT) =>
        LET sel == selected_score_records
            P == Passing(selected_min_num_loans) IN
        /\ Len(sel) = Min(10, Cardinality(P))
        /\ Range(sel) \subseteq P
        /\ NoDuplicates(sel)
        /\ \A i, j \in 1..Len(sel) : i < j => BeforeAscending(sel[i], sel[j])
        /\ \A q \in P \ Range(sel) : \A i \in 1..Len(sel) : BeforeAscending(sel[i], q)

\* C2's case: a record exactly at the threshold is selected, another is below
\* it, more than 10 pass and the selection holds a tie and a strict step
C2_Witness ==
    /\ pc = "selected" /\ selected_hhi_category = LOW_HHI_SEGMENT
    /\ Cardinality(Passing(selected_min_num_loans)) > 10
    /\ Cardinality(Passing(selected_min_num_loans)) < Len(score_records)
    /\ \E i \in 1..Len(selected_score_records) :
          score_records[selected_score_records[i]].bin_num_loans = selected_min_num_loans
    /\ \E i \in 1..9 : /\ FracEQ(HhiOf(selected_score_records[i]),
                                 HhiOf(selected_score_records[i + 1]))
                       /\ selected_score_records[i] < selected_score_records[i + 1]
    /\ \E i \in 1..9 : FracLT(HhiOf(selected_score_records[i]),
                              HhiOf(selected_score_records[i + 1]))

\* the canonical bin order, largest bin first
CanonicalBins ==
    <<"$5M - $10M", "$2.5M - $5M", "$1M - $2.5M", "$500K - $1M",
      "$250K - $500K", "$100K - $250K", "$50K - $100K", "$0 - $50K">>

\* the sort position of a label: its place in the canonical order, and one
\* place after the last for a label that is not canonical
BinPosition(label) ==
    IF \E k \in 1..Len(CanonicalBins) : CanonicalBins[k] = label
        THEN CHOOSE k \in 1..Len(CanonicalBins) : CanonicalBins[k] = label
        ELSE Len(CanonicalBins) + 1

BeforeCanonical(a, b) ==
    LET pa == BinPosition(score_records[a].loan_amount_bin)
        pb == BinPosition(score_records[b].loan_amount_bin) IN
    pa < pb \/ (pa = pb /\ a < b)

\* C3: with category All the selection is every record with bin_num_loans >= T
\* (no cut at 10), in canonical bin order from "$5M - $10M" to "$0 - $50K",
\* labels outside the canonical set last, equal positions in input order.
C3_AllCanonicalOrder ==
    (pc = "selected" /\ selected_hhi_category = ALL_SEGMENT) =>
        LET sel == selected_score_records
            P == Passing(selected_min_num_loans) IN
        /\ Len(sel) = Cardinality(P)
        /\ Range(sel) = P
        /\ \A i, j \in 1..Len(sel) : i < j => BeforeCanonical(sel[i], sel[j])

\* C3's case: more than 10 records selected, the first in the largest bin, then
\* the smallest bin, a non-canonical label last, although the input had the
\* non-canonical label first
C3_Witness ==
    /\ pc = "selected" /\ selected_hhi_category = ALL_SEGMENT
    /\ Len(selected_score_records) > 10
    /\ Len(selected_score_records) < Len(score_records)
    /\ score_records[1].loan_amount_bin = "$10M+"
    /\ score_records[selected_score_records[1]].loan_amount_bin = "$5M - $10M"
    /\ \E i \in 1..Len(selected_score_records) :
          score_records[selected_score_records[i]].loan_amount_bin = "$0 - $50K"
    /\ score_records[selected_score_records[Len(selected_score_records)]].loan_amount_bin
          = "$10M+"

\* C4 as stated: for every category, what a higher threshold selects is also
\* selected at the lower threshold.
C4_ThresholdMonotone ==
    pc = "selected" =>
        \A t2 \in SelThresholds :
            selected_min_num_loans < t2 =>
                \A i \in Range(get_selected_score_records(
                                   score_records, t2, selected_hhi_category)) :
                    i \in Range(selected_score_records)

\* C4 amended: what a higher threshold selects is also selected at the lower
\* threshold T when the category is All, or when at most 10 records have
\* bin_num_loans >= T (so the top-10 cut removes nothing at T).
C4_MonotoneWithoutCut ==
    (pc = "selected"
       /\ (selected_hhi_category = ALL_SEGMENT
             \/ Cardinality(Passing(selected_min_num_loans)) <= 10)) =>
        \A t2 \in SelThresholds :
            selected_min_num_loans < t2 =>
                \A i \in Range(get_selected_score_records(
                                   score_records, t2, selected_hhi_category)) :
                    i \in Range(selected_score_records)

\* C4's case: a top-10 category, a higher threshold that selects something and
\* a lower threshold that selects strictly more
C4_Witness ==
    /\ pc = "selected" /\ selected_hhi_category = HIGH_HHI_SEGMENT
    /\ Cardinality(Passing(selected_min_num_loans)) <= 10
    /\ \E t2 \in SelThresholds :
          /\ selected_min_num_loans < t2
          /\ get_selected_score_records(score_records, t2, selected_hhi_category) # <<>>
          /\ Len(get_selected_score_records(score_records, t2, selected_hhi_category))
                < Len(selected_score_records)

\* the hhi values of a selection, in order
HhiSeq(sel) == [i \in 1..Len(sel) |-> HhiOf(sel[i])]

SameHhiSeq(s, t) ==
    Len(s) = Len(t) /\ \A i \in 1..Len(s) : FracEQ(s[i], t[i])

\* the MostFragmented selection reads, by hhi, as the MostConcentrated one
\* backwards, and the first hhi of each is the last hhi of the other
MirrorsFragmented(sel) ==
    LET low == get_selected_score_records(
                   score_records, selected_min_num_loans, LOW_HHI_SEGMENT) IN
    /\ SameHhiSeq(HhiSeq(sel), Reverse(HhiSeq(low)))
    /\ sel # <<>> =>
          /\ low # <<>>
          /\ FracEQ(HhiOf(sel[1]), HhiOf(low[Len(low)]))
          /\ FracEQ(HhiOf(sel[Len(sel)]), HhiOf(low[1]))

\* C5 as stated: on the same input and threshold the two top-10 selections are
\* reverse-sorted by hhi relative to each other, head of one = tail of the other.
C5_ReverseOfEachOther ==
    (pc = "selected" /\ selected_hhi_category = HIGH_HHI_SEGMENT) =>
        MirrorsFragmented(selected_score_records)

\* C5 amended: the same, when at most 10 records have bin_num_loans >= T.
C5_ReverseWithoutCut ==
    (pc = "selected" /\ selected_hhi_category = HIGH_HHI_SEGMENT
       /\ Cardinality(Passing(selected_min_num_loans)) <= 10) =>
        MirrorsFragmented(selected_score_records)

\* C5's case: a MostConcentrated selection of several records with two
\* different hhi values, nothing cut
C5_Witness ==
    /\ pc = "selected" /\ selected_hhi_category = HIGH_HHI_SEGMENT
    /\ Cardinality(Passing(selected_min_num_loans)) <= 10
    /\ Len(selected_score_records) >= 3
    /\ FracLT(HhiOf(selected_score_records[Len(selected_score_records)]),
              HhiOf(selected_score_records[1]))

\* ------------------------------------------------------------ claims: pipeline and page
\* the scoring loop has just finished: score_records is final, and df and
\* score_records do not change afterwards
Scored == pc = "radio"

\* the selection has been made
SelectionMade == pc \in {"metrics", "chart", "toggle", "info", "done"}

\* the loans of a city that fall in a bin, counted on the raw records
LoansInBin(city, b) ==
    SumOver(df, {k \in LoanKinds : k[1] = city /\ BinOf(k[3]) = b})

\* the loans of one lender in a segment
LenderLoansInBin(city, b, l) ==
    SumOver(df, {k \in LoanKinds : k[1] = city /\ k[2] = l /\ BinOf(k[3]) = b})

RecordsOf(city, b) ==
    {i \in 1..Len(score_records) :
        score_records[i].city = city /\ score_records[i].loan_amount_bin = b}

\* C6 as stated: empty input at any stage (no city at the threshold, no score
\* records, an empty selection) never raises: no run of render_page ends in an
\* exception.
C6_EmptyNeverRaises == raised = "none"

\* C7: after scoring there is a record for (city, bin) iff the city has at least
\* 10 loans and at least 10 of them fall in the bin; there is at most one record
\* per pair, and its bin_num_loans is the number of the city's loans in the bin.
C7_RecordIffBothThresholds ==
    Scored =>
        /\ \A c \in Cities, b \in Range(bin_labels) :
              /\ (RecordsOf(c, b) # {}) <=>
                     (CityLoanCount(df, c) >= 10 /\ LoansInBin(c, b) >= 10)
              /\ Cardinality(RecordsOf(c, b)) <= 1
              /\ \A i \in RecordsOf(c, b) :
                    score_records[i].bin_num_loans = LoansInBin(c, b)
        /\ \A i \in 1..Len(score_records) :
              /\ score_records[i].city \in Cities
              /\ score_records[i].loan_amount_bin \in Range(bin_labels)

\* C7's case: one city has a record, the other city has 9 loans, all in one
\* bin, and no record
C7_Witness ==
    /\ Scored
    /\ score_records # <<>>
    /\ \E c \in Cities : /\ CityLoanCount(df, c) = 9
                         /\ \E b \in Range(bin_labels) : LoansInBin(c, b) = 9
                         /\ \A i \in 1..Len(score_records) : score_records[i].city # c

\* C7's other case: a city at the city threshold whose bins are all below the
\* bin threshold, and so no record at all
C7_WitnessBelowBin ==
    /\ Scored
    /\ score_records = <<>>
    /\ \E c \in Cities : CityLoanCount(df, c) >= 10

\* the lenders with a loan in the segment of record i
LendersOf(i) ==
    {l \in Lenders :
        LenderLoansInBin(score_records[i].city, score_records[i].loan_amount_bin, l) > 0}

\* the sum of the squared loan counts of the lenders of record i
SumOfSquaredCounts(i) ==
    SumOver([l \in Lenders |->
                LenderLoansInBin(score_records[i].city,
                                 score_records[i].loan_amount_bin, l)
              * LenderLoansInBin(score_records[i].city,
                                 score_records[i].loan_amount_bin, l)],
            Lenders)

\* C8: every record's hhi is the sum over its lenders of
\* (num_loans / bin_num_loans * 100) squared, i.e. 10000 * sum(n^2) / N^2;
\* 0 < hhi <= 10000, and hhi = 10000 iff exactly one lender has loans there.
C8_HhiRange ==
    Scored =>
        \A i \in 1..Len(score_records) :
            LET r == score_records[i]
                N == r.bin_num_loans IN
            /\ r.hhi.num * N * N = 10000 * SumOfSquaredCounts(i) * r.hhi.den
            /\ r.hhi.num > 0 /\ r.hhi.den > 0
            /\ r.hhi.num <= 10000 * r.hhi.den
            /\ SumOfSquaredCounts(i) <= N * N
            /\ (r.hhi.num = 10000 * r.hhi.den) <=> (Cardinality(LendersOf(i)) = 1)

\* C8's case: a single-lender record and a two-lender record side by side
C8_Witness ==
    /\ Scored
    /\ \E i, j \in 1..Len(score_records) :
          /\ Cardinality(LendersOf(i)) = 1
          /\ score_records[i].hhi = Frac(10000, 1)
          /\ Cardinality(LendersOf(j)) = 2
          /\ FracLT(score_records[j].hhi, Frac(10000, 1))

Downstream == {"category", "metrics", "chart", "table", "info"}

\* C9: when the selection is empty the notice is shown, the run is over and no
\* downstream section (metrics, chart, table, info box) is ever rendered; when
\* the selection is not empty the notice is not shown.
C9_EmptySelectionStops ==
    SelectionMade =>
        IF selected_score_records = <<>>
            THEN /\ pc = "done"
                 /\ "no_data_selected" \in Range(shown)
                 /\ Range(shown) \cap Downstream = {}
            ELSE "no_data_selected" \notin Range(shown)

\* C9's case: the slider went above every bin_num_loans and the run ended with
\* the notice
C9_Witness ==
    /\ pc = "done"
    /\ score_records # <<>>
    /\ selected_score_records = <<>>
    /\ "no_data_selected" \in Range(shown)

\* the other half of C9's case: a run that rendered every section
C9_WitnessFull ==
    /\ pc = "done"
    /\ selected_score_records # <<>>
    /\ {"metrics", "chart", "table", "info"} \subseteq Range(shown)

\* C10 as stated: the groups below the bin threshold are gone before the share
\* is computed: whenever the rows carry lender_num_loans_pct, every one of them
\* has bin_num_loans >= 10 (and so a denominator that is not zero).
C10_DroppedBeforePct ==
    pc \in {"drop", "append"} =>
        \A r \in ltb : r.bin_num_loans >= BIN_NUM_LOANS_MIN_THREASHOLD

=============================================================================
